---- MODULE Spec2Model ----
(***************************************************************************)
(* Model of prepare_dashboard_data.py: the batch pipeline that reads the   *)
(* master workflow table, builds the day2 attendance index, reshapes the   *)
(* day1 rows into one record per beneficiary slot, aggregates one summary  *)
(* per session and writes the dashboard JSON file.                         *)
(*                                                                         *)
(* Text cells are sequences of one-character strings, so that splitting,   *)
(* stripping and digit filtering are computed as the code computes them.   *)
(* Retention_Rate_Pct is kept in hundredths of a percent (round(x, 2)).    *)
(***************************************************************************)
EXTENDS Integers, Sequences, FiniteSets, TLC

\* ---------------------------------------------------------------- bounds
\* Largest number of rows of the master table.
MaxRows == 3
\* Number of beneficiary slots of a day1 row (range(1, 36) in the code,
\* scaled down).
NumSlots == 2

\* ------------------------------------------------------------ cell values
\* A missing cell (pandas NaN).
NaN == <<"NaN">>
\* A cell that Excel stores as a date: read_excel yields a Timestamp.
DateCell == <<"Timestamp">>

notna(x) == x # NaN

Digits == {"0", "1", "2", "3", "4", "5", "6", "7", "8", "9"}
Whitespace == {" ", "\t", "\n"}

\* The characters used by the inputs, in code-point order.
CodePoints == <<"\t", "\n", " ", "-", ".", "0", "1", "2", "3", "4", "5", "6", "7",
                "8", "9", "S", "a", "n", "x", "y">>
Ord(c) == CHOOSE k \in 1..Len(CodePoints) : CodePoints[k] = c

\* Python's str < str.
RECURSIVE StrLess(_, _)
StrLess(a, b) ==
    IF b = <<>> THEN FALSE
    ELSE IF a = <<>> THEN TRUE
    ELSE IF Head(a) = Head(b) THEN StrLess(Tail(a), Tail(b))
    ELSE Ord(Head(a)) < Ord(Head(b))

\* str(x) of a cell: a missing cell prints as 'nan'.
PyStr(x) == IF x = NaN THEN <<"n", "a", "n">> ELSE x

IsDigit(c) == c \in Digits

\* standardize_cnic: re.sub(r'[^0-9]', '', str(cnic_str)), '' when missing.
standardize_cnic(cnic_str) ==
    IF notna(cnic_str) THEN SelectSeq(PyStr(cnic_str), IsDigit) ELSE <<>>

\* s.split(' '): every single space separates, empty tokens are kept.
RECURSIVE SplitFrom(_, _)
SplitFrom(s, cur) ==
    IF s = <<>> THEN <<cur>>
    ELSE IF Head(s) = " " THEN <<cur>> \o SplitFrom(Tail(s), <<>>)
    ELSE SplitFrom(Tail(s), Append(cur, Head(s)))
split(s) == SplitFrom(s, <<>>)

\* s.strip()
RECURSIVE lstrip(_)
lstrip(s) == IF s # <<>> /\ Head(s) \in Whitespace THEN lstrip(Tail(s)) ELSE s
RECURSIVE rstrip(_)
rstrip(s) ==
    IF s # <<>> /\ s[Len(s)] \in Whitespace THEN rstrip(SubSeq(s, 1, Len(s) - 1)) ELSE s
strip(s) == rstrip(lstrip(s))

Range(f) == {f[k] : k \in DOMAIN f}

\* ------------------------------------------------------------ float(token)
None == <<>>

RECURSIVE DigitsValue(_)
DigitsValue(ds) ==
    IF ds = <<>> THEN 0
    ELSE 10 * DigitsValue(SubSeq(ds, 1, Len(ds) - 1)) + (Ord(ds[Len(ds)]) - Ord("0"))

\* float() accepts an optional sign followed by digits with at most one
\* decimal point, or by 'nan' (of the characters the inputs use); anything
\* else is a ValueError.
FloatBody(tok) == IF tok # <<>> /\ Head(tok) = "-" THEN Tail(tok) ELSE tok
IsDot(c) == c = "."
IsNanText(body) == body = <<"n", "a", "n">>
ParsesAsFloat(tok) ==
    LET body == FloatBody(tok) IN
    \/ IsNanText(body)
    \/ /\ \A k \in 1..Len(body) : body[k] \in Digits \cup {"."}
       /\ Len(SelectSeq(body, IsDot)) <= 1
       /\ Len(SelectSeq(body, IsDigit)) >= 1

\* The value of a float as <<sign, mantissa, decimals>>, without trailing
\* zero decimals (3.60 = 3.6); float('nan') is <<0, 0, 0>>.
RECURSIVE Normal(_)
Normal(v) ==
    IF v[3] > 0 /\ v[2] % 10 = 0 THEN Normal(<<v[1], v[2] \div 10, v[3] - 1>>) ELSE v
RECURSIVE DotIndex(_)
DotIndex(body) ==
    IF body = <<>> THEN 1 ELSE IF Head(body) = "." THEN 1 ELSE 1 + DotIndex(Tail(body))
float(tok) ==
    LET body == FloatBody(tok)
        sign == IF tok # <<>> /\ Head(tok) = "-" THEN -1 ELSE 1
        decimals == IF Len(SelectSeq(body, IsDot)) = 0 THEN 0 ELSE Len(body) - DotIndex(body)
    IN IF IsNanText(body) THEN <<0, 0, 0>>
       ELSE Normal(<<sign, DigitsValue(SelectSeq(body, IsDigit)), decimals>>)

\* ------------------------------------------------------- pipeline functions
\* df_master[df_master['main_menu'] == 'day2'] and ... == 'day1'
IsDay2(row) == row.main_menu = "day2"
IsDay1(row) == row.main_menu = "day1"
Day2Rows(df) == SelectSeq(df, IsDay2)
Day1Rows(df) == SelectSeq(df, IsDay1)

\* {standardize_cnic(c) for c in str(beneficiaries_present).split(' ') if c.strip()}
AttendeeSet(beneficiaries_present) ==
    LET tokens == split(PyStr(beneficiaries_present))
    IN {standardize_cnic(tokens[k]) : k \in {j \in 1..Len(tokens) : strip(tokens[j]) # <<>>}}

\* The body of the day2 loop: the dictionary after one day2 row.
Day2Update(attendance, row) ==
    IF notna(row.day2_session_select) /\ notna(row.beneficiaries_present)
    THEN (row.day2_session_select :> AttendeeSet(row.beneficiaries_present)) @@ attendance
    ELSE attendance

\* day2_attendance.get(session_id, set())
AttendanceOf(attendance, session_id) ==
    IF session_id \in DOMAIN attendance THEN attendance[session_id] ELSE {}

\* The slot test of the day1 loop: pd.notna(row.get(cnic_col)).
SlotPresentAlways(row, i) == TRUE
SlotPresent(row, i) == notna(row.beneficiary_cnic[i])

\* The record appended for slot i: session_data.copy(), the standardized
\* identifier, then the loop over beneficiary_specific_prefixes, which
\* stores row.get('beneficiary_cnic_<i>') under 'beneficiary_cnic' again.
\* (The name, age and occupation columns are not part of the model.)
BeneficiaryData(row, i) ==
    LET standardized ==
            [session_id |-> row.session_id,
             training_location |-> row.training_location,
             province_select |-> row.province_select,
             beneficiary_cnic |-> standardize_cnic(row.beneficiary_cnic[i])]
    IN [standardized EXCEPT !.beneficiary_cnic = row.beneficiary_cnic[i]]

\* for i in range(1, 36): the records one day1 row appends, from slot i on.
RECURSIVE SlotRecords(_, _)
SlotRecords(row, i) ==
    IF i > NumSlots THEN <<>>
    ELSE (IF SlotPresent(row, i) THEN <<BeneficiaryData(row, i)>> ELSE <<>>)
         \o SlotRecords(row, i + 1)

\* df.groupby('session_id') on a frame built from an empty list has no
\* column 'session_id': KeyError.
GroupByNeverRaises(df) == FALSE
GroupByRaises(df) == df = <<>>

\* The group keys: the distinct non-missing session ids, sorted.
SessionIds(df) == {df[k].session_id : k \in DOMAIN df} \ {NaN}
RECURSIVE SortedSeq(_)
SortedSeq(S) ==
    IF S = {} THEN <<>>
    ELSE LET m == CHOOSE x \in S : \A y \in S \ {x} : StrLess(x, y)
         IN <<m>> \o SortedSeq(S \ {m})
RECURSIVE FirstSeen(_, _)
FirstSeen(df, seen) ==
    IF df = <<>> THEN <<>>
    ELSE IF Head(df).session_id \in seen \cup {NaN} THEN FirstSeen(Tail(df), seen)
    ELSE <<Head(df).session_id>> \o FirstSeen(Tail(df), seen \cup {Head(df).session_id})
GroupKeysUnsorted(df) == FirstSeen(df, {})
GroupKeys(df) == SortedSeq(SessionIds(df))

\* The rows of one group, in frame order.
Group(df, session_id) ==
    LET InGroup(r) == r.session_id = session_id IN SelectSeq(df, InGroup)

\* Lines 84-91: lat, lon = float(coords[0]), float(coords[1]) inside
\* try / except (ValueError, IndexError).  raises: an exception leaves the try.
Unset == [lat |-> None, lon |-> None, raises |-> FALSE]
ParseCoordsStepwise(training_location) ==
    LET location_str == PyStr(training_location)
        coords == split(location_str)
    IN IF strip(location_str) \in {<<"n", "a", "n">>, <<>>} THEN Unset
       ELSE IF ~ParsesAsFloat(coords[1]) THEN Unset
       ELSE IF Len(coords) < 2
            THEN [lat |-> float(coords[1]), lon |-> None, raises |-> TRUE]
       ELSE IF ~ParsesAsFloat(coords[2])
            THEN [lat |-> float(coords[1]), lon |-> None, raises |-> FALSE]
       ELSE [lat |-> float(coords[1]), lon |-> float(coords[2]), raises |-> FALSE]
ParseCoords(training_location) ==
    LET location_str == PyStr(training_location)
        coords == split(location_str)
    IN IF strip(location_str) \in {<<"n", "a", "n">>, <<>>} THEN Unset
       ELSE IF ~ParsesAsFloat(coords[1]) THEN Unset
       ELSE IF Len(coords) < 2 THEN Unset
       ELSE IF ~ParsesAsFloat(coords[2]) THEN Unset
       ELSE [lat |-> float(coords[1]), lon |-> float(coords[2]), raises |-> FALSE]

\* round(num / den) to the nearest integer, ties to even.
RoundHalfEven(num, den) ==
    LET q == num \div den
        r == num % den
    IN IF 2 * r < den THEN q
       ELSE IF 2 * r > den THEN q + 1
       ELSE IF q % 2 = 0 THEN q ELSE q + 1

\* group['beneficiary_cnic'].count(): the non-missing stored identifiers.
HasCnic(r) == notna(r.beneficiary_cnic)
CountCnic(group) == Len(SelectSeq(group, HasCnic))

\* Line 96, then round(retention_rate, 2), in hundredths of a percent.
RetentionRate(cnics_day2, beneficiary_count_day1) ==
    IF beneficiary_count_day1 > 0
    THEN RoundHalfEven(Cardinality(cnics_day2) * 100 * 100, beneficiary_count_day1)
    ELSE 0

\* The dictionary appended to dashboard_records for one group.
SessionSummary(df, attendance, session_id) ==
    LET group == Group(df, session_id)
        first_row == group[1]
        coords == ParseCoords(first_row.training_location)
        beneficiary_count_day1 == CountCnic(group)
        cnics_day2 == AttendanceOf(attendance, session_id)
    IN [TrainingID |-> session_id,
        Province |-> first_row.province_select,
        Beneficiary_Count_Actual |-> beneficiary_count_day1,
        Retention_Rate_Pct |-> RetentionRate(cnics_day2, beneficiary_count_day1),
        Start_Location_Lat |-> coords.lat,
        Start_Location_Lon |-> coords.lon]

\* json.dump raises TypeError on a value that is no str, number, bool or None.
JsonEncodable(record) == record.Province # DateCell

\* ------------------------------------------------------------------ state
VARIABLES
    master_file,        \* the file at master_file_path: exists, readable, rows
    output_json,        \* the file at output_json_path
    pc,                 \* the statement prepare_dashboard_data is at
    idx,                \* the position of the running loop (1-based)
    df_master,          \* the table read_excel returned
    day2_attendance,    \* dict: session id -> set of identifiers
    long_format_list,   \* the beneficiary records
    dashboard_records,  \* the session summaries
    message             \* what the run printed last: its outcome

vars == <<master_file, output_json, pc, idx, df_master, day2_attendance,
          long_format_list, dashboard_records, message>>

\* The output file before the run: absent, or left by an earlier run.
NoFile == [exists |-> FALSE, old |-> FALSE, dumped |-> <<>>, metadata |-> FALSE]
OldFile == [exists |-> TRUE, old |-> TRUE, dumped |-> <<>>, metadata |-> FALSE]
\* open(output_json_path, 'w'): created or truncated.
Truncated == [exists |-> TRUE, old |-> FALSE, dumped |-> <<>>, metadata |-> FALSE]

Untouched(f) == f \in {NoFile, OldFile}
CompleteArtifact(f, records) ==
    f = [exists |-> TRUE, old |-> FALSE, dumped |-> records, metadata |-> TRUE]

\* ----------------------------------------------------------------- inputs
S1 == <<"S", "1">>
S2 == <<"S", "2">>
LocOk == <<"3", ".", "6", " ", "7", ".", "0">>
Punjab == <<"P", "b">>

AllMissing == [i \in 1..NumSlots |-> NaN]
OneCnic(c) == [i \in 1..NumSlots |-> IF i = 1 THEN c ELSE NaN]

Day1Row(session_id, cnics, location, province) ==
    [main_menu |-> "day1", session_id |-> session_id,
     training_location |-> location, province_select |-> province,
     beneficiary_cnic |-> cnics,
     day2_session_select |-> NaN, beneficiaries_present |-> NaN]
Day2Row(session_id, present) ==
    [main_menu |-> "day2", session_id |-> NaN,
     training_location |-> NaN, province_select |-> NaN,
     beneficiary_cnic |-> AllMissing,
     day2_session_select |-> session_id, beneficiaries_present |-> present]
\* A row of another form section, which happens to fill an identifier column.
OtherRow ==
    [main_menu |-> "other", session_id |-> S1,
     training_location |-> LocOk, province_select |-> Punjab,
     beneficiary_cnic |-> OneCnic(<<"1", "2">>),
     day2_session_select |-> NaN, beneficiaries_present |-> NaN]

\* Rows every input set has: a day1 row whose province cell is a date, and a
\* day2 row naming one registered and one unregistered identifier.
BaseRows ==
    {Day1Row(S1, OneCnic(<<"1", "2">>), LocOk, DateCell),
     Day2Row(S1, <<"1", "2", " ", "9">>)}

\* Sessions, identifier formats and attendee lists.
RowsMain ==
    BaseRows
    \cup {Day1Row(s, OneCnic(c), LocOk, Punjab) :
            s \in {S1, S2}, c \in {<<"1", "-", "2">>, <<"1", "2">>}}
    \cup {Day1Row(NaN, OneCnic(<<"3">>), LocOk, Punjab),
          Day1Row(S1, AllMissing, LocOk, Punjab)}
    \cup {Day2Row(S1, p) : p \in {<<"x">>, <<"3">>, NaN}}
    \cup {Day2Row(NaN, <<"1", "2">>)}

\* Every combination of present and missing slots.
RowsReshape ==
    BaseRows
    \cup {Day1Row(S1, cn, LocOk, Punjab) : cn \in [1..NumSlots -> {NaN, <<"1", "-", "2">>}]}
    \cup {Day1Row(S2, OneCnic(<<"3">>), LocOk, Punjab), OtherRow}

\* Location strings.
Locations ==
    {NaN, LocOk,
     <<"3", ".", "6">>,
     <<"x", " ", "y">>,
     <<"3", ".", "6", " ", "x">>,
     <<"3", ".", "6", " ", " ", "7">>,
     <<"3", ".", "6", " ", "7", ".", "0", " ", "5">>,
     <<"-", "3", " ", "7", ".", "5", "0">>,
     <<"3", ".", "6", " ", "n", "a", "n">>}
RowsCoord ==
    BaseRows
    \cup {Day1Row(S1, OneCnic(<<"1", "2">>), loc, Punjab) : loc \in Locations}
    \cup {Day1Row(S2, OneCnic(<<"3">>), <<"7">>, Punjab)}

Tables(rows) == UNION {[1..n -> rows] : n \in 0..MaxRows}

MasterFiles(rows) ==
    {[exists |-> FALSE, readable |-> FALSE, rows |-> <<>>],
     [exists |-> TRUE, readable |-> FALSE, rows |-> <<>>]}
    \cup {[exists |-> TRUE, readable |-> TRUE, rows |-> t] : t \in Tables(rows)}

InitWith(rows) ==
    /\ master_file \in MasterFiles(rows)
    /\ output_json \in {NoFile, OldFile}
    /\ pc = "start"
    /\ idx = 1
    /\ df_master = <<>>
    /\ day2_attendance = <<>>
    /\ long_format_list = <<>>
    /\ dashboard_records = <<>>
    /\ message = "none"

Init == InitWith(RowsMain)
InitReshape == InitWith(RowsReshape)
InitCoord == InitWith(RowsCoord)

\* ---------------------------------------------------------------- actions
\* Where the run continues once the day2 loop, the day1 loop and the group
\* loop are over.
AfterDay2(df) == IF Day1Rows(df) # <<>> THEN "day1" ELSE "groupby"
AfterRead(df) == IF Day2Rows(df) # <<>> THEN "day2" ELSE AfterDay2(df)

\* Lines 22-24: os.path.exists(master_file_path).
CheckExists ==
    /\ pc = "start"
    /\ IF master_file.exists
       THEN pc' = "read" /\ message' = message
       ELSE pc' = "done" /\ message' = "not found"
    /\ UNCHANGED <<master_file, output_json, idx, df_master, day2_attendance,
                   long_format_list, dashboard_records>>

\* Line 31: pd.read_excel; a file it cannot parse raises.
ReadExcel ==
    /\ pc = "read"
    /\ IF master_file.readable
       THEN /\ df_master' = master_file.rows
            /\ pc' = AfterRead(master_file.rows)
            /\ message' = message
       ELSE /\ df_master' = df_master
            /\ pc' = "done"
            /\ message' = "error"
    /\ idx' = 1
    /\ UNCHANGED <<master_file, output_json, day2_attendance, long_format_list,
                   dashboard_records>>

\* Lines 35-40: one iteration of the loop over df_day2.
Day2Step ==
    /\ pc = "day2"
    /\ LET df_day2 == Day2Rows(df_master)
       IN /\ day2_attendance' = Day2Update(day2_attendance, df_day2[idx])
          /\ IF idx < Len(df_day2)
             THEN idx' = idx + 1 /\ pc' = pc
             ELSE idx' = 1 /\ pc' = AfterDay2(df_master)
    /\ UNCHANGED <<master_file, output_json, df_master, long_format_list,
                   dashboard_records, message>>

\* Lines 47-73: one iteration of the loop over df_day1, all its slots.
Day1Step ==
    /\ pc = "day1"
    /\ LET df_day1 == Day1Rows(df_master)
       IN /\ long_format_list' = long_format_list \o SlotRecords(df_day1[idx], 1)
          /\ IF idx < Len(df_day1)
             THEN idx' = idx + 1 /\ pc' = pc
             ELSE idx' = 1 /\ pc' = "groupby"
    /\ UNCHANGED <<master_file, output_json, df_master, day2_attendance,
                   dashboard_records, message>>

\* Lines 75-79: the frame and its groupby.
GroupBy ==
    /\ pc = "groupby"
    /\ IF GroupByRaises(long_format_list)
       THEN pc' = "done" /\ message' = "error"
       ELSE /\ pc' = IF GroupKeys(long_format_list) = <<>> THEN "open" ELSE "aggregate"
            /\ message' = message
    /\ idx' = 1
    /\ UNCHANGED <<master_file, output_json, df_master, day2_attendance,
                   long_format_list, dashboard_records>>

\* Lines 81-123: one iteration of the loop over the groups.
Aggregate ==
    /\ pc = "aggregate"
    /\ LET grouped_by_session == GroupKeys(long_format_list)
           session_id == grouped_by_session[idx]
           first_row == Group(long_format_list, session_id)[1]
       IN IF ParseCoords(first_row.training_location).raises
          THEN /\ pc' = "done"
               /\ message' = "error"
               /\ idx' = idx
               /\ dashboard_records' = dashboard_records
          ELSE /\ dashboard_records' =
                     Append(dashboard_records,
                            SessionSummary(long_format_list, day2_attendance, session_id))
               /\ message' = message
               /\ IF idx < Len(grouped_by_session)
                  THEN idx' = idx + 1 /\ pc' = pc
                  ELSE idx' = 1 /\ pc' = "open"
    /\ UNCHANGED <<master_file, output_json, df_master, day2_attendance,
                   long_format_list>>

\* Line 133: open(output_json_path, 'w').
OpenOutput ==
    /\ pc = "open"
    /\ output_json' = Truncated
    /\ pc' = IF dashboard_records = <<>> THEN "metadata" ELSE "dump"
    /\ idx' = 1
    /\ UNCHANGED <<master_file, df_master, day2_attendance, long_format_list,
                   dashboard_records, message>>

\* Line 134: json.dump writes the summaries one after the other; a value it
\* cannot encode raises after the earlier ones are written, and the with
\* statement closes the file.
DumpRecord ==
    /\ pc = "dump"
    /\ IF JsonEncodable(dashboard_records[idx])
       THEN /\ output_json' =
                  [output_json EXCEPT !.dumped = Append(@, dashboard_records[idx])]
            /\ message' = message
            /\ IF idx < Len(dashboard_records)
               THEN idx' = idx + 1 /\ pc' = pc
               ELSE idx' = 1 /\ pc' = "metadata"
       ELSE /\ output_json' = output_json
            /\ pc' = "done"
            /\ message' = "error"
            /\ idx' = idx
    /\ UNCHANGED <<master_file, df_master, day2_attendance, long_format_list,
                   dashboard_records>>

\* Lines 127-136: json.dump writes the metadata, the file is closed.
DumpMetadata ==
    /\ pc = "metadata"
    /\ output_json' = [output_json EXCEPT !.metadata = TRUE]
    /\ pc' = "done"
    /\ message' = "success"
    /\ UNCHANGED <<master_file, idx, df_master, day2_attendance, long_format_list,
                   dashboard_records>>

Next ==
    \/ CheckExists
    \/ ReadExcel
    \/ Day2Step
    \/ Day1Step
    \/ GroupBy
    \/ Aggregate
    \/ OpenOutput
    \/ DumpRecord
    \/ DumpMetadata

Spec == Init /\ [][Next]_vars
SpecReshape == InitReshape /\ [][Next]_vars
SpecCoord == InitCoord /\ [][Next]_vars

\* ------------------------------------------------------------- properties
Abs(n) == IF n < 0 THEN -n ELSE n

\* The table was read: the run got past read_excel.
TableRead == master_file.exists /\ master_file.readable /\ pc \notin {"start", "read"}
\* The loop over the groups is over and the write step was reached.
SummariesComplete ==
    pc \in {"open", "dump", "metadata"} \/ (pc = "done" /\ ~Untouched(output_json))

\* The beneficiary records of a summary's session.
RecordsOf(d) == {k \in DOMAIN long_format_list : long_format_list[k].session_id = d.TrainingID}
FirstRecordOf(d) == long_format_list[CHOOSE k \in RecordsOf(d) : \A j \in RecordsOf(d) : k <= j]

\* C1: every session summary has Beneficiary_Count_Actual = N, the number of
\* beneficiary records of its session, and Retention_Rate_Pct =
\* round(K / N * 100, 2), where K is the number of distinct normalized
\* identifiers of the session that are in its attendance set (0 when N = 0 or
\* the session has no day2 row).
C1_RetentionIsMatchedShare ==
    \A n \in DOMAIN dashboard_records :
        LET d == dashboard_records[n]
            N == Cardinality(RecordsOf(d))
            ids == {standardize_cnic(long_format_list[k].beneficiary_cnic) : k \in RecordsOf(d)}
            K == Cardinality(ids \cap AttendanceOf(day2_attendance, d.TrainingID))
        IN /\ d.Beneficiary_Count_Actual = N
           /\ IF N = 0 \/ d.TrainingID \notin DOMAIN day2_attendance
              THEN d.Retention_Rate_Pct = 0
              ELSE 2 * Abs(d.Retention_Rate_Pct * N - K * 100 * 100) <= N

\* C2: every session summary's Retention_Rate_Pct lies in [0, 100] when its
\* beneficiary count is positive, and is 0 otherwise.
C2_RetentionWithinPercent ==
    \A n \in DOMAIN dashboard_records :
        LET d == dashboard_records[n]
        IN IF d.Beneficiary_Count_Actual > 0
           THEN d.Retention_Rate_Pct >= 0 /\ d.Retention_Rate_Pct <= 100 * 100
           ELSE d.Retention_Rate_Pct = 0

\* C3: when the run has ended, the output file is either untouched or the
\* complete artifact, and it is untouched whenever the run did not succeed.
C3_AllOrNothing ==
    pc = "done" =>
        /\ Untouched(output_json) \/ CompleteArtifact(output_json, dashboard_records)
        /\ message # "success" => Untouched(output_json)

\* C4: the summaries are in strictly ascending order of TrainingID (so no
\* identifier appears twice), and once the group loop is over their
\* TrainingIDs are exactly the session identifiers that beneficiary records
\* carry.
C4_OneSummaryPerSessionAscending ==
    /\ \A m, n \in DOMAIN dashboard_records :
          m < n => StrLess(dashboard_records[m].TrainingID, dashboard_records[n].TrainingID)
    /\ SummariesComplete =>
          /\ \A k \in DOMAIN long_format_list :
                notna(long_format_list[k].session_id) =>
                    \E n \in DOMAIN dashboard_records :
                        dashboard_records[n].TrainingID = long_format_list[k].session_id
          /\ \A n \in DOMAIN dashboard_records : RecordsOf(dashboard_records[n]) # {}

\* Two summaries exist although the first beneficiary record belongs to the
\* larger session identifier.
C4_Witness ==
    /\ SummariesComplete
    /\ Len(dashboard_records) = 2
    /\ long_format_list[1].session_id = S2

\* The day1 rows whose records are in long_format_list.
Reshaped ==
    IF pc \in {"start", "read", "day2"} THEN 0
    ELSE IF pc = "day1" THEN idx - 1
    ELSE Len(Day1Rows(df_master))
\* The number of non-missing identifier slots among the first i of a row.
PresentUpTo(row, i) == Cardinality({k \in 1..i : notna(row.beneficiary_cnic[k])})
RECURSIVE PresentBefore(_, _)
PresentBefore(df_day1, j) ==
    IF j <= 1 THEN 0
    ELSE PresentBefore(df_day1, j - 1) + PresentUpTo(df_day1[j - 1], NumSlots)

\* C5: the records of the day1 rows reshaped so far are, row after row and
\* slot after slot, the non-missing identifier slots of those rows: each row
\* adds as many records as it has non-missing slots, and rows of another
\* discriminator add none.
C5_ReshapeCount ==
    LET df_day1 == Day1Rows(df_master)
    IN /\ Len(long_format_list) = PresentBefore(df_day1, Reshaped + 1)
       /\ \A j \in 1..Reshaped : \A i \in 1..NumSlots :
             notna(df_day1[j].beneficiary_cnic[i]) =>
                LET r == long_format_list[PresentBefore(df_day1, j) + PresentUpTo(df_day1[j], i)]
                IN /\ r.session_id = df_day1[j].session_id
                   /\ standardize_cnic(r.beneficiary_cnic)
                        = standardize_cnic(df_day1[j].beneficiary_cnic[i])

\* A day1 row with a missing first slot and a present second one was
\* reshaped in a table that also has a row of another discriminator.
C5_Witness ==
    /\ pc = "groupby"
    /\ Len(long_format_list) >= 2
    /\ \E k \in DOMAIN df_master : df_master[k] = OtherRow
    /\ \E k \in DOMAIN df_master :
          /\ df_master[k].main_menu = "day1"
          /\ df_master[k].beneficiary_cnic[1] = NaN
          /\ df_master[k].beneficiary_cnic[NumSlots] # NaN

\* The location string's first two tokens exist and are numeric.
TwoNumericTokens(location) ==
    LET tokens == split(PyStr(location))
    IN /\ notna(location)
       /\ Len(tokens) >= 2
       /\ ParsesAsFloat(tokens[1])
       /\ ParsesAsFloat(tokens[2])

\* C6 (as stated): a location string of exactly two numeric tokens sets both
\* coordinates; a missing value, a non-numeric token or a token count other
\* than two leaves both unset.
C6_WrongTokenCountUnset ==
    \A n \in DOMAIN dashboard_records :
        LET d == dashboard_records[n]
            location == FirstRecordOf(d).training_location
            tokens == split(PyStr(location))
        IN IF TwoNumericTokens(location) /\ Len(tokens) = 2
           THEN d.Start_Location_Lat = float(tokens[1]) /\ d.Start_Location_Lon = float(tokens[2])
           ELSE d.Start_Location_Lat = None /\ d.Start_Location_Lon = None

\* C6 (amended): coordinate parsing never ends the run and never sets one
\* coordinate alone; when the first two space-separated tokens of the location
\* string exist and are numeric, latitude and longitude are those two values,
\* whatever follows them; otherwise both are unset.
C6_FirstTwoTokens ==
    /\ \A n \in DOMAIN dashboard_records :
          LET d == dashboard_records[n]
              location == FirstRecordOf(d).training_location
              tokens == split(PyStr(location))
          IN /\ (d.Start_Location_Lat = None) <=> (d.Start_Location_Lon = None)
             /\ IF TwoNumericTokens(location)
                THEN /\ d.Start_Location_Lat = float(tokens[1])
                     /\ d.Start_Location_Lon = float(tokens[2])
                ELSE d.Start_Location_Lat = None /\ d.Start_Location_Lon = None
    /\ (TableRead /\ pc = "done" /\ message = "error" /\ long_format_list # <<>>)
          => ~Untouched(output_json)

\* Summaries exist for a three-token location, with both coordinates set, and
\* for a one-token location, with none set.
C6_Witness ==
    /\ \E n \in DOMAIN dashboard_records :
          /\ Len(split(PyStr(FirstRecordOf(dashboard_records[n]).training_location))) = 3
          /\ dashboard_records[n].Start_Location_Lat = <<1, 36, 1>>
          /\ dashboard_records[n].Start_Location_Lon = <<1, 7, 0>>
    /\ \E n \in DOMAIN dashboard_records :
          /\ FirstRecordOf(dashboard_records[n]).training_location = <<"7">>
          /\ dashboard_records[n].Start_Location_Lat = None

\* The day2 rows of the table that name a session and an attendee list.
Day2RowsFor(session_id) ==
    {k \in DOMAIN df_master :
        /\ df_master[k].main_menu = "day2"
        /\ df_master[k].day2_session_select = session_id
        /\ notna(df_master[k].beneficiaries_present)}

\* C7: once the day2 rows are processed, the attendance index of every
\* session is the union of the normalized attendee identifiers of all the
\* day2 rows of that session (the empty set when it has none).
C7_AttendanceIsUnion ==
    (TableRead /\ pc # "day2") =>
        \A s \in {S1, S2} :
            AttendanceOf(day2_attendance, s)
                = UNION {AttendeeSet(df_master[k].beneficiaries_present) : k \in Day2RowsFor(s)}

\* C8: every beneficiary record stores its identifier in digit-only form.
C8_StoredIdentifierNormalized ==
    \A k \in DOMAIN long_format_list :
        \A c \in Range(long_format_list[k].beneficiary_cnic) : c \in Digits

\* C9: no attendance set contains the empty identifier.
C9_NoEmptyIdentifier ==
    \A s \in DOMAIN day2_attendance : <<>> \notin day2_attendance[s]

\* C10: when the table was read and the reshape step produced no record, the
\* run ends at the groupby: it reports an error, never reaches the write
\* step, and leaves the output file as it was.
C10_EmptyReshapeWritesNothing ==
    (TableRead /\ pc \notin {"day2", "day1", "groupby"} /\ long_format_list = <<>>) =>
        /\ pc = "done"
        /\ message = "error"
        /\ Untouched(output_json)
        /\ dashboard_records = <<>>

\* A run over a table with a day1 row whose slots are all missing has ended,
\* and no output file exists.
C10_Witness ==
    /\ TableRead
    /\ pc = "done"
    /\ Day1Rows(df_master) # <<>>
    /\ long_format_list = <<>>
    /\ output_json = NoFile

====
